---- MODULE Spec2Model ----
(***************************************************************************)
(* ddSeeker: extraction of cell barcodes and UMIs from the first read of   *)
(* each pair (src/ddSeeker.py).                                            *)
(*                                                                         *)
(* Reads, linkers, barcodes and blocks are sequences of one-symbol         *)
(* strings.  Python's None is the one-element sequence None (for values    *)
(* that are otherwise sequences) or the record NoneInt (for values that    *)
(* are otherwise integers).                                                *)
(***************************************************************************)
EXTENDS Integers, Sequences, FiniteSets, TLC

VARIABLES
    pc,             \* position of the program (of main, or of the function under study)
    _barcodes,      \* the global barcode dictionary (list of barcodes), NotLoaded before it is set
    block,          \* fix_block: its argument
    fixed,          \* fix_block: its return value
    read,           \* make_tags: its argument
    alignment,      \* make_tags: what local_alignment returns for linker 1 and linker 2
    ret,            \* make_tags: its return value
    barcodes_file,  \* main: the barcode blocks file (args.barcodes_file)
    in_bam,         \* main: the records of the input uBAM, first and second reads alternating
    summary,        \* main: whether a summary prefix was given (args.summary)
    cores,          \* main: the size of the pool (args.ncores)
    taskqueue,      \* the pool: indices of the reads not yet handed to a worker
    workers,        \* the pool: the index each worker is tagging, 0 when it is idle
    results,        \* the pool: the result list of the map, None where no result has arrived
    tags,           \* main: what pool.map returned
    i_read,         \* main (the loop variable i): second reads tagged and written so far
    out_bam,        \* main: the records written to the output uBAM
    error_count,    \* main: the dict error_count
    cell_count,     \* main: the dict cell_count
    exit_status     \* main: exit status of the process, -1 while it runs

fixVars == <<block, fixed>>
tagVars == <<read, alignment, ret>>
mainVars == <<barcodes_file, in_bam, summary, cores, taskqueue, workers, results, tags, i_read,
              out_bam, error_count, cell_count, exit_status>>
vars == <<pc, _barcodes, block, fixed, read, alignment, ret, barcodes_file, in_bam, summary,
          cores, taskqueue, workers, results, tags, i_read, out_bam, error_count, cell_count,
          exit_status>>

----------------------------------------------------------------------------
(* Bounds of the model *)

\* longest barcode dictionary that is enumerated
MaxBarcodes == 2

\* most first reads in the input uBAM
MaxReads == 2

\* largest pool
MaxCores == 2

----------------------------------------------------------------------------
(* Python values *)

None == <<"None">>
NotLoaded == <<"NameError">>

Max2(a, b) == IF a >= b THEN a ELSE b
Max3(a, b, c) == Max2(a, Max2(b, c))
Min2(a, b) == IF a <= b THEN a ELSE b

\* s[lo:hi] for a sequence s and integers lo, hi (negative indices count from the end)
PySlice(s, lo, hi) ==
    LET n == Len(s)
        l == IF lo < 0 THEN Max2(lo + n, 0) ELSE Min2(lo, n)
        h == IF hi < 0 THEN Max2(hi + n, 0) ELSE Min2(hi, n)
    IN  IF l >= h THEN <<>> ELSE SubSeq(s, l + 1, h)

\* s[:n]
PyTake(s, n) == PySlice(s, 0, n)

----------------------------------------------------------------------------
(* Bio.pairwise2.align.globalxs(seqA, seqB, open, extend, score_only=True):  *)
(* the best score of a global alignment where equal symbols score 1,        *)
(* different symbols 0, and a gap of n symbols costs open + (n-1)*extend,   *)
(* end gaps included.  Three values per cell (Gotoh): the best alignment    *)
(* of the two prefixes that ends in a pair of symbols (m), in a symbol of   *)
(* seqA against a gap (x), in a symbol of seqB against a gap (y).           *)

\* below every score an alignment of seqA and seqB can have
Low(seqA, seqB, open, extend) ==
    (Len(seqA) + Len(seqB)) * (Min2(Min2(open, extend), 0) - 1) - 1

match_score(a, b) == IF a = b THEN 1 ELSE 0

RECURSIVE fill_row(_, _, _, _, _, _, _)
fill_row(prev, cur, a, seqB, open, extend, low) ==
    IF Len(cur) = Len(seqB) + 1 THEN cur
    ELSE LET j    == Len(cur)          \* the column being filled, 1..Len(seqB)
             diag == prev[j]
             up   == prev[j + 1]
             left == cur[j]
             cell == [m |-> IF Max3(diag.m, diag.x, diag.y) <= low THEN low
                            ELSE match_score(a, seqB[j]) + Max3(diag.m, diag.x, diag.y),
                      x |-> Max2(low, Max3(up.m + open, up.x + extend, up.y + open)),
                      y |-> Max2(low, Max3(left.m + open, left.y + extend, left.x + open))]
         IN  fill_row(prev, Append(cur, cell), a, seqB, open, extend, low)

RECURSIVE fill_rows(_, _, _, _, _, _, _)
fill_rows(prev, i, seqA, seqB, open, extend, low) ==
    IF i > Len(seqA) THEN prev
    ELSE LET first == [m |-> low, x |-> open + (i - 1) * extend, y |-> low]
         IN  fill_rows(fill_row(prev, <<first>>, seqA[i], seqB, open, extend, low),
                       i + 1, seqA, seqB, open, extend, low)

global_alignment(seqA, seqB, open, extend) ==
    LET low  == Low(seqA, seqB, open, extend)
        row0 == [j \in 1..(Len(seqB) + 1) |->
                    IF j = 1 THEN [m |-> 0, x |-> low, y |-> low]
                    ELSE [m |-> low, x |-> low, y |-> open + (j - 2) * extend]]
        last == fill_rows(row0, 1, seqA, seqB, open, extend, low)[Len(seqB) + 1]
    IN  Max3(last.m, last.x, last.y)

----------------------------------------------------------------------------
(* fix_block *)

\* accepts with one threshold for every block length
accepts_loose(block_, score) == score >= 4

\* the test of the if statement in fix_block's loop
accepts(block_, score) ==
    (Len(block_) = 5 /\ score >= 4) \/ (Len(block_) >= 6 /\ score >= 5)

RECURSIVE fix_block_from(_, _)
fix_block_from(block_, n) ==
    IF n > Len(_barcodes) THEN None
    ELSE LET bc    == _barcodes[n]
             score == global_alignment(bc, block_, -1, -1)
         IN  IF accepts(block_, score) THEN bc ELSE fix_block_from(block_, n + 1)

\* fix_block returning the best-scoring entry that passes the test
fix_block_best(block_) ==
    LET scores == [n \in 1..Len(_barcodes) |-> global_alignment(_barcodes[n], block_, -1, -1)]
        Q == {n \in 1..Len(_barcodes) : accepts(block_, scores[n])}
    IN  IF Q = {} THEN None
        ELSE _barcodes[CHOOSE n \in Q : \A k \in Q : scores[k] < scores[n] \/ (scores[k] = scores[n] /\ n <= k)]

\* fix_block returning the block itself once an entry passes the test
fix_block_raw(block_) == IF fix_block_from(block_, 1) = None THEN None ELSE block_

fix_block(block_) == fix_block_from(block_, 1)

----------------------------------------------------------------------------
(* make_tags *)

TAGCCATCGCATTGC == <<"T", "A", "G", "C", "C", "A", "T", "C", "G", "C", "A", "T", "T", "G", "C">>
TACCTCTGAGCTGAA == <<"T", "A", "C", "C", "T", "C", "T", "G", "A", "G", "C", "T", "G", "A", "A">>

_linkers == <<TAGCCATCGCATTGC, TACCTCTGAGCTGAA>>

ACG == <<"A", "C", "G">>
GAC == <<"G", "A", "C">>

\* str.upper, symbol by symbol
upper_symbol(c) ==
    CASE c = "a" -> "A" [] c = "c" -> "C" [] c = "g" -> "G" [] c = "t" -> "T"
      [] c = "n" -> "N" [] OTHER -> c

upper(s) == [i \in 1..Len(s) |-> upper_symbol(s[i])]

\* hamming_dist raises ValueError
hamming_raises(s1, s2) == Len(s1) # Len(s2)

\* hamming_dist, when it does not raise
hamming_dist(s1, s2) == Cardinality({i \in 1..Len(s1) : s1[i] # s2[i]})

\* dist > 1, where dist is hamming_dist(s, ref) or float("inf") after a ValueError
dist_above_1(s, ref) == IF hamming_raises(s, ref) THEN TRUE ELSE hamming_dist(s, ref) > 1

\* an integer or None
NoneInt == [isNone |-> TRUE, v |-> 0]
IntVal(n) == [isNone |-> FALSE, v |-> n]

\* Python's "not x" for x an integer or None
not_(x) == x.isNone \/ x.v = 0

\* "if fixed" for fixed a string or None
truthy(x) == x # None /\ x # <<>>

\* One linker's turn of the loop over _linkers.  a is what the aligner returned:
\* score, begin, end, gapA ("-" in seqA[begin:end]) and gapB ("-" in seqB).
locate(a) ==
    LET length == a.end - a.begin
    IN  IF (a.score = 14 \/ a.score = 15) /\ length = 15
            THEN [start |-> IntVal(a.begin), k |-> IntVal(0)]
        ELSE IF a.score = 14 /\ length = 14
            THEN [start |-> IntVal(a.begin - 1), k |-> IntVal(0)]
        ELSE IF a.gapA /\ a.score = 12 /\ length = 15
            THEN [start |-> IntVal(a.begin), k |-> IntVal(-1)]
        ELSE IF a.gapB /\ a.score = 13 /\ length = 16
            THEN [start |-> IntVal(a.begin), k |-> IntVal(1)]
        ELSE [start |-> NoneInt, k |-> NoneInt]

\* a linker counts as not aligned
missing(start) == not_(start)

\* the test before error D, without the starts below 5 that are not negative
too_short_negative(start0) == start0 < 0

\* the test before error D
too_short(start0) == start0 < 5

\* the tags of a failure and of a success
XE(code) == << <<"XE", code, "Z">> >>
XB_XU(barcode, umi) == << <<"XB", barcode, "Z">>, <<"XU", umi, "Z">> >>

\* the loop over (bc1, bc2, bc3): the corrected blocks joined, or None at the
\* first block that fix_block rejects
RECURSIVE fix_blocks(_, _)
fix_blocks(blocks, barcode) ==
    IF blocks = <<>> THEN barcode
    ELSE LET fixed_ == fix_block(Head(blocks))
         IN  IF truthy(fixed_) THEN fix_blocks(Tail(blocks), barcode \o fixed_)
             ELSE None

\* make_tags(read) where local_alignment returns alignment_[1] for linker 1 and
\* alignment_[2] for linker 2: the value returned (ret) and the bounds <<lo, hi>>
\* of every slice read[lo:hi] evaluated on the way (slices)
run_make_tags(read_, alignment_) ==
    LET r      == upper(read_)
        starts == [l \in 1..2 |-> locate(alignment_[l]).start]
        k      == [l \in 1..2 |-> locate(alignment_[l]).k]
    IN  IF missing(starts[1]) /\ missing(starts[2]) THEN [ret |-> XE("LX"), slices |-> <<>>]
        ELSE IF missing(starts[1]) THEN [ret |-> XE("L1"), slices |-> <<>>]
        ELSE IF missing(starts[2]) THEN [ret |-> XE("L2"), slices |-> <<>>]
        ELSE
        LET s0 == starts[1].v
            s1 == starts[2].v
            k0 == k[1].v
            k1 == k[2].v
            bc2_at == IF s1 - s0 = 21 + k0 THEN <<s1 - 6, s1>>
                      ELSE IF s1 - s0 = 20 + k0 THEN <<s1 - 5, s1>>
                      ELSE IF s1 - s0 = 22 + k0 THEN <<s1 - 7, s1>>
                      ELSE <<>>
        IN  IF bc2_at = <<>> THEN [ret |-> XE("I"), slices |-> <<>>]
            ELSE IF too_short(s0) THEN [ret |-> XE("D"), slices |-> <<bc2_at>>]
            ELSE
            LET bc2    == PySlice(r, bc2_at[1], bc2_at[2])
                bc1_at == IF s0 = 5 THEN <<0, s0>> ELSE <<s0 - 6, s0>>
                bc1    == PySlice(r, bc1_at[1], bc1_at[2])
                acg_at == <<s1 + 21 + k1, s1 + 24 + k1>>
                acg    == PySlice(r, acg_at[1], acg_at[2])
                gac_at == <<s1 + 32 + k1, s1 + 35 + k1>>
                gac    == PySlice(r, gac_at[1], gac_at[2])
                bc3_at == <<s1 + 15 + k1, s1 + 21 + k1>>
                bc3    == PySlice(r, bc3_at[1], bc3_at[2])
                umi_at == <<s1 + 24 + k1, s1 + 32 + k1>>
                umi    == PySlice(r, umi_at[1], umi_at[2])
            IN  IF dist_above_1(acg, ACG)
                    THEN [ret |-> XE("J"), slices |-> <<bc2_at, bc1_at, acg_at>>]
                ELSE IF dist_above_1(gac, GAC)
                    THEN [ret |-> XE("K"), slices |-> <<bc2_at, bc1_at, acg_at, gac_at>>]
                ELSE
                LET barcode == fix_blocks(<<bc1, bc2, bc3>>, <<>>)
                IN  IF barcode = None
                        THEN [ret |-> XE("B"),
                              slices |-> <<bc2_at, bc1_at, acg_at, gac_at, bc3_at>>]
                    ELSE [ret |-> XB_XU(barcode, umi),
                          slices |-> <<bc2_at, bc1_at, acg_at, gac_at, bc3_at, umi_at>>]

make_tags(read_, alignment_) == run_make_tags(read_, alignment_).ret

----------------------------------------------------------------------------
(* Inputs of the bounded checks *)

\* the variables of main, in the checks of one function on its own
MainUnused ==
    /\ barcodes_file = <<>> /\ in_bam = <<>> /\ summary = FALSE /\ cores = 1
    /\ taskqueue = <<>> /\ workers = <<>> /\ results = <<>> /\ tags = <<>> /\ i_read = 0
    /\ out_bam = <<>> /\ error_count = <<>> /\ cell_count = <<>> /\ exit_status = -1

TTTGGG == <<"T", "T", "T", "G", "G", "G">>
TTTGTG == <<"T", "T", "T", "G", "T", "G">>
TGTGTG == <<"T", "G", "T", "G", "T", "G">>
GGTTG  == <<"G", "G", "T", "T", "G">>

BarcodePool == {TTTGGG, TTTGTG, TGTGTG, GGTTG}

Dictionaries == UNION {[1..n -> BarcodePool] : n \in 0..MaxBarcodes}

BlockAlphabet == {"T", "G"}

Blocks == UNION {[1..n -> BlockAlphabet] : n \in {5, 6, 7}}

CCATCA == <<"C", "C", "A", "T", "C", "A">>
AACCGGTT == <<"A", "A", "C", "C", "G", "G", "T", "T">>
GTGTACAN == <<"G", "T", "G", "T", "A", "C", "A", "N">>

\* the read of the end-to-end layout: block1, linker 1, block2, linker 2, block3,
\* the ACG checkpoint, the UMI, the GAC checkpoint
Layout(b1, b2, b3, acg, umi, gac) ==
    b1 \o _linkers[1] \o b2 \o _linkers[2] \o b3 \o acg \o umi \o gac

BaseRead == Layout(TTTGGG, CCATCA, TTTGTG, ACG, AACCGGTT, GAC)

\* the reads given to make_tags: the layout, and the layout with one part changed
Reads ==
    { BaseRead,
      Layout(<<"T", "T", "T", "G", "G", "C">>, CCATCA, TTTGTG, ACG, AACCGGTT, GAC),   \* block1, 1 mismatch
      Layout(<<"T", "T", "A", "G", "G", "C">>, CCATCA, TTTGTG, ACG, AACCGGTT, GAC),   \* block1, 2 mismatches
      Layout(<<"T", "T", "G", "G", "G">>, CCATCA, TTTGTG, ACG, AACCGGTT, GAC),        \* block1, 1 deletion
      Layout(<<"A", "T", "T", "T", "G", "G", "G">>, CCATCA, TTTGTG, ACG, AACCGGTT, GAC), \* 1 symbol ahead
      Layout(<<>>, CCATCA, TTTGTG, ACG, AACCGGTT, GAC),                               \* linker 1 first
      Layout(TTTGGG, <<"C", "C", "T", "C", "A">>, TTTGTG, ACG, AACCGGTT, GAC),        \* block2, 1 deletion
      Layout(TTTGGG, <<"C", "C", "A", "T", "T", "C", "A">>, TTTGTG, ACG, AACCGGTT, GAC), \* block2, 1 insertion
      Layout(TTTGGG, CCATCA, <<"A", "A", "A", "A", "A", "A">>, ACG, AACCGGTT, GAC),   \* block3 unknown
      Layout(TTTGGG, CCATCA, TTTGTG, <<"A", "C", "T">>, GTGTACAN, GAC),               \* ACG, 1 mismatch
      Layout(TTTGGG, CCATCA, TTTGTG, <<"T", "T", "T">>, AACCGGTT, GAC),               \* ACG, 3 mismatches
      Layout(TTTGGG, CCATCA, TTTGTG, ACG, AACCGGTT, <<"G", "A", "T">>),               \* GAC, 1 mismatch
      Layout(TTTGGG, CCATCA, TTTGTG, ACG, AACCGGTT, <<"T", "C", "A">>),               \* GAC, 3 mismatches
      Layout(TTTGGG, CCATCA, TTTGTG, ACG, AACCGGTT, <<"G", "A">>),                    \* cut inside GAC
      Layout(TTTGGG, CCATCA, TTTGTG, <<"A">>, <<>>, <<>>),                            \* cut inside ACG
      Layout(<<"t", "t", "t", "g", "g", "g">>, CCATCA, <<"t", "t", "t", "g", "t", "g">>,
             <<"a", "c", "g">>, <<"a", "a", "c", "c", "g", "g", "t", "t">>, GAC) }    \* lower case

\* the dictionaries make_tags runs with
TagDictionaries == { <<TTTGGG, TTTGTG, CCATCA>>, <<CCATCA, TTTGTG>> }

\* what the aligner returns, apart from where the alignment begins: the score,
\* the length end - begin, and whether the two gap tests hold
AlignmentShapes ==
    { [score |-> 15, length |-> 15, gapA |-> FALSE, gapB |-> TRUE],   \* exact
      [score |-> 14, length |-> 15, gapA |-> FALSE, gapB |-> TRUE],   \* 1 mismatch
      [score |-> 14, length |-> 14, gapA |-> FALSE, gapB |-> TRUE],   \* 1 mismatch, first symbol
      [score |-> 12, length |-> 15, gapA |-> TRUE,  gapB |-> TRUE],   \* 1 deletion
      [score |-> 12, length |-> 15, gapA |-> FALSE, gapB |-> TRUE],   \* 3 mismatches
      [score |-> 13, length |-> 16, gapA |-> FALSE, gapB |-> TRUE],   \* 1 insertion
      [score |-> 13, length |-> 15, gapA |-> FALSE, gapB |-> TRUE],   \* 2 mismatches
      [score |-> 13, length |-> 14, gapA |-> FALSE, gapB |-> FALSE] } \* short and 1 mismatch

\* where the alignment of linker 1 and of linker 2 begins
Begins == << {0, 1, 5, 6, 7}, {0, 21, 26, 27, 28} >>

Alignments(l) ==
    { [score |-> sh.score, begin |-> b, end |-> b + sh.length, gapA |-> sh.gapA, gapB |-> sh.gapB] :
        sh \in AlignmentShapes, b \in Begins[l] }

----------------------------------------------------------------------------
(* make_tags on its own: one call, for every read and pair of alignments *)

InitTags ==
    /\ pc = "make_tags"
    /\ _barcodes \in TagDictionaries
    /\ read \in Reads
    /\ alignment \in Alignments(1) \X Alignments(2)
    /\ ret = <<>>
    /\ block = <<>> /\ fixed = None
    /\ MainUnused

MakeTags ==
    /\ pc = "make_tags"
    /\ ret' = make_tags(read, alignment)
    /\ pc' = "returned"
    /\ UNCHANGED <<_barcodes, read, alignment, fixVars, mainVars>>

NextTags == MakeTags

SpecTags == InitTags /\ [][NextTags]_vars

ErrorCodes == {"LX", "L1", "L2", "I", "D", "J", "K", "B"}

\* the error code of a returned value, PASS for a success
Outcome(tags_) == IF tags_[1][1] = "XE" THEN tags_[1][2] ELSE "PASS"

\* what the locator reports for linker l of the call under study
Located(l) == ~locate(alignment[l]).start.isNone
Start(l) == locate(alignment[l]).start.v
K(l) == locate(alignment[l]).k.v

\* C1: make_tags returns LX exactly when the locator reports no match for both
\* linkers, L1 exactly when it reports no match for linker 1 only, L2 exactly
\* when it reports no match for linker 2 only; a linker matched at any start,
\* 0 included, is never reported as missing.
C1_LinkerErrors ==
    pc = "returned" =>
        /\ (ret = XE("LX")) <=> (~Located(1) /\ ~Located(2))
        /\ (ret = XE("L1")) <=> (~Located(1) /\ Located(2))
        /\ (ret = XE("L2")) <=> (Located(1) /\ ~Located(2))

\* C1 as the code has it: a linker located at start 0 counts as missing too
C1_LinkerErrorsStartZeroMissing ==
    pc = "returned" =>
        LET gone(l) == ~Located(l) \/ Start(l) = 0
        IN  /\ (ret = XE("LX")) <=> (gone(1) /\ gone(2))
            /\ (ret = XE("L1")) <=> (gone(1) /\ ~gone(2))
            /\ (ret = XE("L2")) <=> (~gone(1) /\ gone(2))

\* the n symbols of s at offset off (from 0), or nothing when they are not all there
At(s, off, n) == IF off >= 0 /\ off + n <= Len(s) THEN SubSeq(s, off + 1, off + n) ELSE <<>>

\* s has the length of ref and differs from it in at most one place
Near(s, ref) == Len(s) = Len(ref) /\ Cardinality({i \in 1..Len(ref) : s[i] # ref[i]}) <= 1

\* the code of the earliest failing step, in the order I, D, J, K, B, from the
\* located starts and indel adjustments of the call under study
FirstFailingStep ==
    LET r      == upper(read)
        gap    == Start(2) - Start(1)
        block1 == IF Start(1) = 5 THEN At(r, 0, 5) ELSE At(r, Start(1) - 6, 6)
        block2 == At(r, Start(2) - (gap - K(1) - 15), gap - K(1) - 15)
        block3 == At(r, Start(2) + 15 + K(2), 6)
    IN  IF gap \notin {20 + K(1), 21 + K(1), 22 + K(1)} THEN "I"
        ELSE IF Start(1) < 5 THEN "D"
        ELSE IF ~Near(At(r, Start(2) + 21 + K(2), 3), ACG) THEN "J"
        ELSE IF ~Near(At(r, Start(2) + 32 + K(2), 3), GAC) THEN "K"
        ELSE IF \E b \in {block1, block2, block3} : fix_block(b) = None THEN "B"
        ELSE "PASS"

\* C2: when both linkers are located, make_tags returns the code of the earliest
\* failing step in the order I, D, J, K, B, and success when no step fails.
C2_FirstFailingStep ==
    (pc = "returned" /\ Located(1) /\ Located(2)) => Outcome(ret) = FirstFailingStep

\* C2 for the reads that get past the linker test of make_tags (no start is 0)
C2_FirstFailingStepPastLinkerTest ==
    (pc = "returned" /\ Located(1) /\ Located(2) /\ Start(1) # 0 /\ Start(2) # 0) =>
        Outcome(ret) = FirstFailingStep

\* the strings a cell barcode can be: three dictionary entries joined
CellBarcodes ==
    {_barcodes[a] \o _barcodes[b] \o _barcodes[c] :
        a \in 1..Len(_barcodes), b \in 1..Len(_barcodes), c \in 1..Len(_barcodes)}

\* C7: a value make_tags returns is either one error attribute with one of the
\* eight codes, or a cell-barcode attribute followed by a UMI attribute and no
\* error attribute, the cell barcode being three dictionary entries joined.
C7_OneVariant ==
    pc = "returned" =>
        \/ /\ Len(ret) = 1
           /\ ret[1][1] = "XE" /\ ret[1][2] \in ErrorCodes /\ ret[1][3] = "Z"
        \/ /\ Len(ret) = 2
           /\ ret[1][1] = "XB" /\ ret[1][3] = "Z"
           /\ ret[2][1] = "XU" /\ ret[2][3] = "Z"
           /\ ret[1][2] \in CellBarcodes

\* C7 witness: a success whose first block was corrected to its dictionary entry
C7_Witness ==
    /\ pc = "returned" /\ Len(ret) = 2 /\ ret[1][1] = "XB"
    /\ Located(1) /\ Start(1) = 6
    /\ SubSeq(upper(read), 1, 6) # SubSeq(ret[1][2], 1, 6)

----------------------------------------------------------------------------
(* make_tags on the end-to-end read: block1, linker 1, block2, linker 2,     *)
(* block3, ACG, UMI, GAC, the three blocks being 6-symbol entries of the     *)
(* dictionary, and both linkers aligned exactly where they are (6 and 27)    *)

UMIs == {AACCGGTT, GTGTACAN}

\* an exact alignment of a linker that begins at b
ExactAt(b) == [score |-> 15, begin |-> b, end |-> b + 15, gapA |-> FALSE, gapB |-> TRUE]

InitSynth ==
    /\ pc = "make_tags"
    /\ _barcodes \in Dictionaries
    /\ \E b1, b2, b3 \in {_barcodes[n] : n \in 1..Len(_barcodes)}, umi \in UMIs :
          /\ Len(b1) = 6 /\ Len(b2) = 6 /\ Len(b3) = 6
          /\ read = Layout(b1, b2, b3, ACG, umi, GAC)
    /\ alignment = <<ExactAt(6), ExactAt(27)>>
    /\ ret = <<>>
    /\ block = <<>> /\ fixed = None
    /\ MainUnused

NextSynth == MakeTags

SpecSynth == InitSynth /\ [][NextSynth]_vars

\* C3: on the end-to-end read make_tags returns success, the cell barcode being
\* block1 + block2 + block3 of the read exactly and the UMI the 8 symbols at
\* offset 51.
C3_EndToEnd ==
    pc = "returned" =>
        ret = XB_XU(At(read, 0, 6) \o At(read, 21, 6) \o At(read, 42, 6), At(read, 51, 8))

\* C3 as the code has it: success, the UMI exact, and each block replaced by the
\* first dictionary entry within one substitution of it
C3_EndToEndFirstEntry ==
    pc = "returned" =>
        LET first(b) == _barcodes[CHOOSE n \in 1..Len(_barcodes) :
                            /\ Near(_barcodes[n], b)
                            /\ \A j \in 1..(n - 1) : ~Near(_barcodes[j], b)]
        IN  ret = XB_XU(first(At(read, 0, 6)) \o first(At(read, 21, 6)) \o first(At(read, 42, 6)),
                        At(read, 51, 8))

----------------------------------------------------------------------------
(* fix_block on its own: one call, for every dictionary and block *)

InitFix ==
    /\ pc = "fix_block"
    /\ _barcodes \in Dictionaries
    /\ block \in Blocks
    /\ fixed = None
    /\ read = <<>> /\ alignment = <<>> /\ ret = <<>>
    /\ MainUnused

FixBlock ==
    /\ pc = "fix_block"
    /\ fixed' = fix_block(block)
    /\ pc' = "returned"
    /\ UNCHANGED <<_barcodes, block, tagVars, mainVars>>

NextFix == FixBlock

SpecFix == InitFix /\ [][NextFix]_vars

\* the score fix_block compares: match +1, mismatch 0, gap open -1, gap extend -1
Score(bc, block_) == global_alignment(bc, block_, -1, -1)

\* the entries of the dictionary (by position) that meet the threshold for the block
Qualifying == {n \in 1..Len(_barcodes) :
                 Score(_barcodes[n], block) >= (IF Len(block) = 5 THEN 4 ELSE 5)}

Delete(s, i) == SubSeq(s, 1, i - 1) \o SubSeq(s, i + 1, Len(s))

\* the block is the entry with at most one symbol substituted (same length),
\* one symbol deleted (block shorter by one) or one inserted (block longer by one)
WithinOneEdit(entry, block_) ==
    \/ /\ Len(block_) = Len(entry)
       /\ Cardinality({i \in 1..Len(entry) : entry[i] # block_[i]}) <= 1
    \/ /\ Len(block_) = Len(entry) - 1
       /\ \E i \in 1..Len(entry) : Delete(entry, i) = block_
    \/ /\ Len(block_) = Len(entry) + 1
       /\ \E i \in 1..Len(block_) : Delete(block_, i) = entry

\* C5: with a dictionary of 6-symbol entries and a block of 5, 6 or 7 symbols,
\* fix_block returns an entry iff some entry is within one edit of the block,
\* and the entry it returns is within one edit of the block.
C5_ExactlyOneEdit ==
    (/\ pc = "returned"
     /\ \A n \in 1..Len(_barcodes) : Len(_barcodes[n]) = 6
     /\ Len(block) \in {5, 6, 7}) =>
        /\ (fixed # None) <=> (\E n \in 1..Len(_barcodes) : WithinOneEdit(_barcodes[n], block))
        /\ fixed # None => WithinOneEdit(fixed, block)

\* C5 witness: a 6-symbol block two substitutions away from every entry of a
\* non-empty dictionary of 6-symbol entries is rejected
C5_Witness ==
    /\ pc = "returned" /\ Len(block) = 6 /\ fixed = None
    /\ Len(_barcodes) > 0
    /\ \A n \in 1..Len(_barcodes) : Len(_barcodes[n]) = 6
    /\ \E n \in 1..Len(_barcodes) :
          Cardinality({i \in 1..6 : _barcodes[n][i] # block[i]}) = 2

----------------------------------------------------------------------------
(* main *)

\* open(barcodes_file).readlines(): status is "ok" or the exception open raises;
\* a line is the list of its whitespace-separated tokens (rstrip().split())
BarcodeFiles ==
    { [status |-> "FileNotFoundError", lines |-> <<>>],
      [status |-> "PermissionError", lines |-> <<>>],
      [status |-> "ok", lines |-> << <<TTTGGG, <<"1">> >>, <<TTTGTG>>, <<CCATCA>> >>],
      [status |-> "ok", lines |-> << <<CCATCA>>, <<>>, <<TTTGGG>> >>] }

\* the first reads of the input and what local_alignment returns for each
Fragments ==
    { [query_sequence |-> BaseRead, aligned |-> <<ExactAt(6), ExactAt(27)>>],
      [query_sequence |-> Layout(TTTGGG, CCATCA, <<"A", "A", "A", "A", "A", "A">>, ACG, AACCGGTT, GAC),
       aligned |-> <<ExactAt(6), ExactAt(27)>>],
      [query_sequence |-> Layout(<<>>, CCATCA, TTTGTG, ACG, GTGTACAN, GAC),
       aligned |-> <<ExactAt(0), ExactAt(21)>>] }

\* a second read
R2 == [query_sequence |-> <<"N">>]

\* the input uBAM: first and second reads alternating, beginning with a first read
InputBams ==
    UNION { { b \in [1..n -> Fragments \cup {R2}] :
                \A j \in 1..n : (b[j] = R2) <=> (j % 2 = 0) } : n \in 0..(2 * MaxReads) }

\* islice(in_bam.fetch(until_eof=True), first, None, 2), first counted from 0
RECURSIVE islice(_, _)
islice(bam, first) ==
    IF first >= Len(bam) THEN <<>>
    ELSE <<bam[first + 1]>> \o islice(bam, first + 2)

\* the list comprehension that sets _barcodes raises IndexError: a line among the
\* first 96 has no token
parse_raises(lines) == \E n \in 1..Len(PyTake(lines, 96)) : lines[n] = <<>>

\* [_.rstrip().split()[0] for _ in lines[:96]]
parse_barcodes(lines) == [n \in 1..Len(PyTake(lines, 96)) |-> lines[n][1]]

\* where main goes when the dictionary cannot be loaded, without the exit
on_load_failure_continue == "open_bam"

\* where main goes when the dictionary cannot be loaded: exit(1) in the handler
\* of FileNotFoundError, the interpreter's exit on any other exception
on_load_failure == "exit"

\* d.get(key, 0) and d[key] = value for a dict d
get(d, key) == IF key \in DOMAIN d THEN d[key] ELSE 0
put(d, key, value) == [x \in DOMAIN d \cup {key} |-> IF x = key THEN value ELSE d[x]]

\* the update of error_count that forgets the reads that pass
count_errors_only(error_count_, tags_i) ==
    IF tags_i[1][1] = "XE" THEN put(error_count_, tags_i[1][2], get(error_count_, tags_i[1][2]) + 1)
    ELSE error_count_

\* the update of error_count in the loop over the second reads
count_errors(error_count_, tags_i) ==
    IF tags_i[1][1] = "XE" THEN put(error_count_, tags_i[1][2], get(error_count_, tags_i[1][2]) + 1)
    ELSE IF tags_i[1][1] = "XB" THEN put(error_count_, "PASS", get(error_count_, "PASS") + 1)
    ELSE error_count_

\* the update of cell_count in the loop over the second reads
count_cells(cell_count_, tags_i) ==
    IF tags_i[1][1] # "XE" /\ tags_i[1][1] = "XB"
        THEN put(cell_count_, tags_i[1][2], get(cell_count_, tags_i[1][2]) + 1)
    ELSE cell_count_

\* a result stored in the first free place of the result list
store_in_arrival_order(results_, index, value) ==
    LET free == CHOOSE n \in 1..Len(results_) :
                    results_[n] = None /\ \A j \in 1..(n - 1) : results_[j] # None
    IN  [results_ EXCEPT ![free] = value]

\* pool.map: the result of the task with this index goes to its place in the list
store_result(results_, index, value) == [results_ EXCEPT ![index] = value]

InitMain ==
    /\ pc = "load_barcodes"
    /\ _barcodes = NotLoaded
    /\ barcodes_file \in BarcodeFiles
    /\ in_bam \in InputBams
    /\ summary \in BOOLEAN
    /\ cores \in 1..MaxCores
    /\ taskqueue = <<>> /\ workers = <<>> /\ results = <<>> /\ tags = <<>>
    /\ i_read = 0 /\ out_bam = <<>> /\ error_count = <<>> /\ cell_count = <<>>
    /\ exit_status = -1
    /\ block = <<>> /\ fixed = None /\ read = <<>> /\ alignment = <<>> /\ ret = <<>>

\* lines 156-163: the dictionary is loaded, or the run ends with status 1
LoadBarcodes ==
    /\ pc = "load_barcodes"
    /\ IF barcodes_file.status = "ok" /\ ~parse_raises(barcodes_file.lines)
          THEN /\ _barcodes' = parse_barcodes(barcodes_file.lines)
               /\ pc' = "open_bam"
               /\ UNCHANGED exit_status
          ELSE /\ pc' = on_load_failure
               /\ exit_status' = 1
               /\ UNCHANGED _barcodes
    /\ UNCHANGED <<fixVars, tagVars, barcodes_file, in_bam, summary, cores, taskqueue, workers,
                   results, tags, i_read, out_bam, error_count, cell_count>>

\* lines 165-177, up to the call of pool.map: the files are opened, the reads
\* counted, the pool created and the first reads handed to it (Pool.map cuts
\* the list into chunks of ceil(N / (4 * cores)) reads, one read for the lists
\* enumerated here)
PoolMap ==
    /\ pc = "open_bam"
    /\ taskqueue' = [n \in 1..Len(islice(in_bam, 0)) |-> n]
    /\ results' = [n \in 1..Len(islice(in_bam, 0)) |-> None]
    /\ workers' = [w \in 1..cores |-> 0]
    /\ pc' = "pool_map"
    /\ UNCHANGED <<_barcodes, fixVars, tagVars, barcodes_file, in_bam, summary, cores, tags,
                   i_read, out_bam, error_count, cell_count, exit_status>>

\* a worker of the pool that is idle takes the next task
WorkerTake(w) ==
    /\ pc = "pool_map"
    /\ workers[w] = 0
    /\ taskqueue # <<>>
    /\ workers' = [workers EXCEPT ![w] = Head(taskqueue)]
    /\ taskqueue' = Tail(taskqueue)
    /\ UNCHANGED <<pc, _barcodes, fixVars, tagVars, barcodes_file, in_bam, summary, cores,
                   results, tags, i_read, out_bam, error_count, cell_count, exit_status>>

\* a worker finishes make_tags on its read and sends the result back
WorkerDone(w) ==
    /\ pc = "pool_map"
    /\ workers[w] # 0
    /\ LET r1 == islice(in_bam, 0)[workers[w]]
       IN  results' = store_result(results, workers[w], make_tags(r1.query_sequence, r1.aligned))
    /\ workers' = [workers EXCEPT ![w] = 0]
    /\ UNCHANGED <<pc, _barcodes, fixVars, tagVars, barcodes_file, in_bam, summary, cores,
                   taskqueue, tags, i_read, out_bam, error_count, cell_count, exit_status>>

\* pool.map returns once every result has arrived
MapReturn ==
    /\ pc = "pool_map"
    /\ \A n \in 1..Len(results) : results[n] # None
    /\ tags' = results
    /\ pc' = "add_tags"
    /\ UNCHANGED <<_barcodes, fixVars, tagVars, barcodes_file, in_bam, summary, cores,
                   taskqueue, workers, results, i_read, out_bam, error_count, cell_count,
                   exit_status>>

\* lines 184-194: one turn of the loop over the second reads
AddTags ==
    /\ pc = "add_tags"
    /\ i_read < Len(islice(in_bam, 1))
    /\ LET r2_ == islice(in_bam, 1)[i_read + 1]
           t   == tags[i_read + 1]
       IN  /\ out_bam' = Append(out_bam, [query_sequence |-> r2_.query_sequence,
                                           tags |-> t, flag |-> 4])
           /\ error_count' = IF summary THEN count_errors(error_count, t) ELSE error_count
           /\ cell_count' = IF summary THEN count_cells(cell_count, t) ELSE cell_count
    /\ i_read' = i_read + 1
    /\ UNCHANGED <<pc, _barcodes, fixVars, tagVars, barcodes_file, in_bam, summary, cores,
                   taskqueue, workers, results, tags, exit_status>>

\* lines 196-222: the loop is over, the files are closed and the summary written;
\* with no read counted the fraction divides by zero
Finish ==
    /\ pc = "add_tags"
    /\ i_read = Len(islice(in_bam, 1))
    /\ IF summary /\ i_read = 0
          THEN pc' = "exit" /\ exit_status' = 1
          ELSE pc' = "done" /\ exit_status' = 0
    /\ UNCHANGED <<_barcodes, fixVars, tagVars, barcodes_file, in_bam, summary, cores,
                   taskqueue, workers, results, tags, i_read, out_bam, error_count, cell_count>>

Next ==
    \/ LoadBarcodes
    \/ PoolMap
    \/ \E w \in 1..cores : WorkerTake(w)
    \/ \E w \in 1..cores : WorkerDone(w)
    \/ MapReturn
    \/ AddTags
    \/ Finish

Spec == InitMain /\ [][Next]_vars

\* the first reads, in input order
FirstReads == islice(in_bam, 0)

\* make_tags of the n-th first read
TagsOf(n) == make_tags(FirstReads[n].query_sequence, FirstReads[n].aligned)

\* pool.map has returned
MapReturned == pc = "add_tags" \/ pc = "done" \/ (pc = "exit" /\ _barcodes # NotLoaded)

\* C6: whatever the pool size and the order in which the workers finish, the
\* list pool.map returns has one element per first read, and element n is
\* make_tags of first read n; while the map runs, every result that has
\* arrived sits at the index of its read.
C6_OrderPreserved ==
    /\ \A n \in 1..Len(results) : results[n] # None => results[n] = TagsOf(n)
    /\ MapReturned =>
          /\ Len(tags) = Len(FirstReads)
          /\ \A n \in 1..Len(tags) : tags[n] = TagsOf(n)

\* C6 witness: the second read's result has arrived before the first read's,
\* and the two reads have different tags
C6_Witness ==
    /\ pc = "pool_map" /\ Len(results) >= 2
    /\ results[1] = None /\ results[2] # None
    /\ TagsOf(1) # TagsOf(2)

\* C9: with the summary enabled, after every turn of the tagging loop the
\* eight error counts and the PASS count add up to the number of second reads
\* processed so far.
C9_CountsAddUp ==
    (summary /\ MapReturned) =>
        get(error_count, "LX") + get(error_count, "L1") + get(error_count, "L2")
          + get(error_count, "I") + get(error_count, "D") + get(error_count, "J")
          + get(error_count, "K") + get(error_count, "B") + get(error_count, "PASS") = i_read

\* C9 witness: the loop is over, a read that passed and a read in error counted
C9_Witness ==
    /\ summary /\ pc = "done" /\ i_read >= 2
    /\ get(error_count, "PASS") >= 1
    /\ \E c \in ErrorCodes : get(error_count, c) >= 1

\* the dictionary source is missing, unreadable or has a line without a token
Unloadable == barcodes_file.status # "ok" \/ parse_raises(barcodes_file.lines)

\* a worker has been given a read, or a result has arrived
TaggingStarted ==
    \/ \E w \in DOMAIN workers : workers[w] # 0
    \/ \E n \in 1..Len(results) : results[n] # None
    \/ tags # <<>>

\* C10: when the dictionary source cannot be loaded the run ends with a non-zero
\* exit status, no read tagged and no record written; tagging starts only once
\* the dictionary has been loaded from its source; and the dictionary never
\* changes after the load.
C10_DictionaryFirst ==
    /\ []((Unloadable /\ pc # "load_barcodes") =>
            (pc = "exit" /\ exit_status > 0 /\ ~TaggingStarted /\ out_bam = <<>>))
    /\ [](TaggingStarted => (~Unloadable /\ _barcodes = parse_barcodes(barcodes_file.lines)))
    /\ [][pc # "load_barcodes" => _barcodes' = _barcodes]_vars

\* C10 witness: the source is unreadable and the run has ended with status 1
C10_Witness ==
    /\ barcodes_file.status = "PermissionError"
    /\ pc = "exit" /\ exit_status = 1
    /\ _barcodes = NotLoaded

====
